---------------------------- MODULE Spec2Model ----------------------------
(***************************************************************************)
(* Model of the derivation layer of assets/js/app.js (MeasureAGI           *)
(* dashboard): loading and installing the record set, record               *)
(* normalisation, streak analysis, goal indications, the calendar grid,    *)
(* the daily challenge list, leaderboard ranking and the per-cohort chart  *)
(* series.                                                                 *)
(*                                                                         *)
(* JavaScript values whose type the code inspects (typeof, Array.isArray,  *)
(* != null) are modelled as tagged records [type |-> ..., v |-> ...].      *)
(* A JavaScript Map is modelled as a sequence of <<key, value>> entries in *)
(* insertion order.  The page elements the render functions look up are   *)
(* taken to be present, so their "element missing" early returns are not   *)
(* taken; a view variable holds what a render function writes to the page. *)
(***************************************************************************)
EXTENDS Integers, Sequences, FiniteSets, TLC

VARIABLES State, pc, load, metricsView, calendarView, dailyView, leaderboardView,
          chartsView, records, streaks, loads, resolved

views == <<metricsView, calendarView, dailyView, leaderboardView, chartsView>>

vars == <<State, pc, load, views, records, streaks, loads, resolved>>

(***************************************************************************)
(* Bounds of the model.                                                    *)
(***************************************************************************)
MaxLen == 3          \* longest short raw calendar sequence
MaxDay == 3          \* largest day number of a short calendar record
MaxTail == 2         \* longest run appended after the break of a long calendar
MaxParticipants == 3 \* longest participant list of a leaderboard payload
MaxPerf == 1         \* most performance points of the first chart participant
MaxPreds == 2        \* most predictions of a challenge
MaxChallenges == 3   \* most challenges of a daily-list payload
MaxLoads == 2        \* most loadData calls in flight together

(***************************************************************************)
(* Program constants.                                                      *)
(***************************************************************************)
GOAL == 100          \* consecutive agi days of the goal

(***************************************************************************)
(* JavaScript values.                                                      *)
(***************************************************************************)
Undefined == [type |-> "undefined", v |-> 0]
Num(n) == [type |-> "number", v |-> n]
Str(n) == [type |-> "string", v |-> n]
Arr(s) == [type |-> "array", v |-> s]
Bool(b) == [type |-> "boolean", v |-> b]

typeof(x) == x.type
IsArray(x) == x.type = "array"

\* ToBoolean of a value in a condition: undefined, false, 0 and "" are falsy.  The
\* strings of the model are non-empty; arrays and objects are truthy.
Truthy(x) ==
  CASE x.type = "undefined" -> FALSE
    [] x.type = "boolean"   -> x.v
    [] x.type = "number"    -> x.v # 0
    [] OTHER                -> TRUE

Min(a, b) == IF a < b THEN a ELSE b
Max(a, b) == IF a > b THEN a ELSE b

(***************************************************************************)
(* Array.prototype.sort with a numeric comparator (a, b) => key(a)-key(b). *)
(* The sort is stable (ECMAScript 2019): elements that compare equal keep  *)
(* their relative order.  keys[i] is the key of seq[i]; element i lands    *)
(* behind every element of smaller key and every earlier element of equal  *)
(* key.                                                                    *)
(***************************************************************************)
SortedPosition(keys, i) ==
  1 + Cardinality({j \in 1..Len(keys) : keys[j] < keys[i] \/ (keys[j] = keys[i] /\ j < i)})

ArraySort(seq, keys) ==
  LET pos == [i \in 1..Len(seq) |-> SortedPosition(keys, i)]
  IN  [k \in 1..Len(seq) |-> seq[CHOOSE i \in 1..Len(seq) : pos[i] = k]]

(***************************************************************************)
(* Map: get / has / set / values on an insertion-ordered entry sequence.   *)
(***************************************************************************)
MapHas(m, k) == \E i \in 1..Len(m) : m[i][1] = k

MapGet(m, k) == m[CHOOSE i \in 1..Len(m) : m[i][1] = k][2]

MapSet(m, k, val) ==
  IF MapHas(m, k)
  THEN [i \in 1..Len(m) |-> IF m[i][1] = k THEN <<k, val>> ELSE m[i]]
  ELSE Append(m, <<k, val>>)

MapValues(m) == [i \in 1..Len(m) |-> m[i][2]]

(***************************************************************************)
(* Record Normalizer.                                                      *)
(***************************************************************************)
\* The body of the forEach callback: skip a record whose day is not a number.
dedupeStep(map, record) ==
  IF typeof(record.day) # "number" THEN map ELSE MapSet(map, record.day.v, record)

\* forEach over days[lo..hi] in index order.  The range is evaluated by halves,
\* the first half's value before the second starts, to bound the evaluation depth.
RECURSIVE dedupeRange(_, _, _, _)
dedupeRange(days, lo, hi, map) ==
  IF lo > hi THEN map
  ELSE IF lo = hi THEN dedupeStep(map, days[lo])
  ELSE LET mid  == (lo + hi) \div 2
           left == dedupeRange(days, lo, mid, map)
       IN  IF left = left THEN dedupeRange(days, mid + 1, hi, left) ELSE left

\* Faulty variant: a day already in the map keeps its first record.
dedupeCalendarMapFirstWins(calendarDays) ==
  LET firsts == SelectSeq(calendarDays, LAMBDA r : typeof(r.day) = "number")
      keep   == {i \in 1..Len(firsts) : \A j \in 1..(i - 1) : firsts[j].day # firsts[i].day}
  IN  dedupeRange([i \in 1..Len(firsts) |-> IF i \in keep THEN firsts[i]
                                            ELSE [firsts[i] EXCEPT !.day = Undefined]],
                  1, Len(firsts), <<>>)

\* Faulty variant: the first malformed record ends the whole pass.
dedupeCalendarMapAbort(calendarDays) ==
  LET bad == {i \in 1..Len(calendarDays) : typeof(calendarDays[i].day) # "number"}
      n   == IF bad = {} THEN Len(calendarDays)
             ELSE (CHOOSE i \in bad : \A j \in bad : i <= j) - 1
  IN  dedupeRange(calendarDays, 1, n, <<>>)

dedupeCalendarMap(calendarDays) == dedupeRange(calendarDays, 1, Len(calendarDays), <<>>)

getCalendarRecords(calendarDays) ==
  LET vals == MapValues(dedupeCalendarMap(calendarDays))
  IN  ArraySort(vals, [i \in 1..Len(vals) |-> vals[i].day.v])

(***************************************************************************)
(* Streak & Progress Analyzer.                                             *)
(***************************************************************************)
\* The body of the forEach callback of the longest-run scan.
longestStep(acc, entry) ==
  IF entry.status = "agi"
  THEN [running |-> acc.running + 1,
        longest |-> IF acc.running + 1 > acc.longest THEN acc.running + 1 ELSE acc.longest]
  ELSE [running |-> 0, longest |-> acc.longest]

\* forEach over sorted[lo..hi] in index order (evaluated by halves, as above).
RECURSIVE longestRange(_, _, _, _)
longestRange(sorted, lo, hi, acc) ==
  IF lo > hi THEN acc
  ELSE IF lo = hi THEN longestStep(acc, sorted[lo])
  ELSE LET mid  == (lo + hi) \div 2
           left == longestRange(sorted, lo, mid, acc)
       IN  IF left = left THEN longestRange(sorted, mid + 1, hi, left) ELSE left

\* The body of the backwards loop; stopped is set by its break.
currentStep(acc, entry) ==
  IF acc.stopped THEN acc
  ELSE IF entry.status = "agi" THEN [current |-> acc.current + 1, stopped |-> FALSE]
  ELSE [current |-> acc.current, stopped |-> TRUE]

\* The loop over sorted[hi], sorted[hi-1], ..., sorted[lo] (evaluated by halves,
\* the upper half first).
RECURSIVE currentRange(_, _, _, _)
currentRange(sorted, lo, hi, acc) ==
  IF lo > hi THEN acc
  ELSE IF lo = hi THEN currentStep(acc, sorted[lo])
  ELSE LET mid   == (lo + hi) \div 2
           right == currentRange(sorted, mid + 1, hi, acc)
       IN  IF right = right THEN currentRange(sorted, lo, mid, right) ELSE right

currentOf(sorted) ==
  currentRange(sorted, 1, Len(sorted), [current |-> 0, stopped |-> FALSE]).current

longestOf(sorted) ==
  longestRange(sorted, 1, Len(sorted), [running |-> 0, longest |-> 0]).longest

sortByDay(recs) == ArraySort(recs, [i \in 1..Len(recs) |-> recs[i].day.v])

\* Faulty variant: running is never reset, so longest counts every agi record.
computeStreaksNoReset(recs) ==
  IF Len(recs) = 0 THEN [current |-> 0, longest |-> 0]
  ELSE LET sorted == sortByDay(recs)
       IN  [current |-> currentOf(sorted),
            longest |-> Cardinality({i \in 1..Len(sorted) : sorted[i].status = "agi"})]

\* Faulty variant: the records are scanned in input order, without sorting by day.
computeStreaksUnsorted(recs) ==
  IF Len(recs) = 0 THEN [current |-> 0, longest |-> 0]
  ELSE [current |-> currentOf(recs), longest |-> longestOf(recs)]

\* Faulty variant: longest is only updated when a run is ended by a non-agi record.
computeStreaksLate(recs) ==
  IF Len(recs) = 0 THEN [current |-> 0, longest |-> 0]
  ELSE LET sorted == sortByDay(recs)
       IN  [current |-> currentOf(sorted),
            longest |-> longestOf(SubSeq(sorted, 1, Len(sorted) - currentOf(sorted)))]

computeStreaks(recs) ==
  IF Len(recs) = 0 THEN [current |-> 0, longest |-> 0]
  ELSE LET sorted == sortByDay(recs)
       IN  [current |-> currentOf(sorted), longest |-> longestOf(sorted)]

updateGoalProgress(longestStreak) ==
  [achieved |-> longestStreak >= GOAL,
   toGo     |-> IF longestStreak >= GOAL THEN 0 ELSE GOAL - Min(longestStreak, GOAL),
   width    |-> Min((longestStreak * 100) \div GOAL, 100)]

updateAgiStatus(s) ==
  IF s.current >= GOAL
  THEN [state |-> "yes", longest |-> s.longest, remaining |-> 0]
  ELSE [state |-> "no", longest |-> s.longest,
        remaining |-> Max(GOAL - Max(s.longest, s.current), 0)]

renderMetrics(st) ==
  LET calendarRecords == getCalendarRecords(st.calendarDays)
      s == computeStreaks(calendarRecords)
  IN  [rendered      |-> TRUE,
       calendarRecords |-> calendarRecords,
       streaks       |-> s,
       daysTracked   |-> Len(calendarRecords),
       agiDays       |-> Cardinality({i \in 1..Len(calendarRecords) :
                                        calendarRecords[i].status = "agi"}),
       currentStreak |-> s.current,
       progress      |-> updateGoalProgress(s.longest),
       agi           |-> updateAgiStatus(s)]

(***************************************************************************)
(* Leaderboard Ranker.  x || 0 is 0 for undefined and for 0 itself.        *)
(***************************************************************************)
TOP_N == 4           \* individual participant lines per chart

OrZero(x) == IF typeof(x) = "number" THEN x.v ELSE 0

AgiDaysDescending(ps) == [i \in 1..Len(ps) |-> 0 - OrZero(ps[i].agiDays)]

\* Faulty variant: participants flagged as goal-achieved are ranked first.
leaderboardOrderBadgeFirst(participants) ==
  ArraySort(participants,
            [i \in 1..Len(participants) |->
               0 - OrZero(participants[i].agiDays)
                 - (IF OrZero(participants[i].longestStreak) >= GOAL THEN 1000 ELSE 0)])

leaderboardOrder(participants) ==
  ArraySort(participants, AgiDaysDescending(participants))

leaderboardRow(p) ==
  [id            |-> p.id,
   typeLabel     |-> IF p.type = "Agent" THEN "Agent System" ELSE "LLM API",
   agiBadge      |-> typeof(p.longestStreak) = "number" /\ p.longestStreak.v >= GOAL,
   agiDays       |-> OrZero(p.agiDays),
   longestStreak |-> OrZero(p.longestStreak)]

renderLeaderboard(st) ==
  LET sorted == leaderboardOrder(st.participants)
  IN  [rendered |-> TRUE,
       empty    |-> Len(sorted) = 0,
       rows     |-> [i \in 1..Len(sorted) |-> leaderboardRow(sorted[i])]]

(***************************************************************************)
(* Series Aggregator.  Aggregate values are kept in hundredths: a point    *)
(* [x |-> d, y100 |-> n] stands for {x: d, y: n / 100}.                    *)
(***************************************************************************)
clampSolved(solved) == Min(Max(solved, 0), 10)

\* Number((solved / count).toFixed(2)) for solved >= 0, count > 0, times 100.
\* toFixed rounds to the nearest hundredth, the larger one on a tie.
\* Faulty variant: the average is truncated to two decimals instead of rounded.
toFixed2Truncated(solved, count) == (100 * solved) \div count

toFixed2(solved, count) == (200 * solved + count) \div (2 * count)

addValue(dayTotals, day, solved) ==
  LET bucket == IF MapHas(dayTotals, day) THEN MapGet(dayTotals, day)
                ELSE [solved |-> 0, count |-> 0, max |-> 0]
  IN  MapSet(dayTotals, day, [solved |-> bucket.solved + solved,
                              count  |-> bucket.count + 1,
                              max    |-> Max(bucket.max, 10)])

RECURSIVE addPerformance(_, _, _)
addPerformance(dayTotals, performance, i) ==
  IF i > Len(performance) THEN dayTotals
  ELSE LET point == performance[i]
       IN  IF typeof(point.day) # "number" \/ typeof(point.solved) # "number"
           THEN addPerformance(dayTotals, performance, i + 1)
           ELSE addPerformance(addValue(dayTotals, point.day.v, clampSolved(point.solved.v)),
                               performance, i + 1)

RECURSIVE addParticipants(_, _, _, _)
addParticipants(dayTotals, participants, type, i) ==
  IF i > Len(participants) THEN dayTotals
  ELSE IF participants[i].type # type
       THEN addParticipants(dayTotals, participants, type, i + 1)
       ELSE addParticipants(addPerformance(dayTotals, participants[i].performance, 1),
                            participants, type, i + 1)

\* (challenge.predictions || []): a challenge without the field has no predictions.
predictionsOf(challenge) ==
  IF "predictions" \in DOMAIN challenge THEN challenge.predictions ELSE <<>>

\* The negation of the early return: if (!participant || participant.type !== type) return;
\* Faulty variant: a prediction of an unknown participant is attributed to the LLM
\* cohort, as the placeholder of the daily list is.
predictionCountsPlaceholder(participantsById, prediction, type) ==
  (IF MapHas(participantsById, prediction.participantId)
   THEN MapGet(participantsById, prediction.participantId).type
   ELSE "LLM") = type

predictionCounts(participantsById, prediction, type) ==
  /\ MapHas(participantsById, prediction.participantId)
  /\ MapGet(participantsById, prediction.participantId).type = type

RECURSIVE addPredictions(_, _, _, _, _, _)
addPredictions(dayTotals, day, predictions, participantsById, type, i) ==
  IF i > Len(predictions) THEN dayTotals
  ELSE LET prediction == predictions[i]
       IN  IF ~predictionCounts(participantsById, prediction, type)
           THEN addPredictions(dayTotals, day, predictions, participantsById, type, i + 1)
           ELSE addPredictions(addValue(dayTotals, day, IF Truthy(prediction.isCorrect) THEN 10 ELSE 0),
                               day, predictions, participantsById, type, i + 1)

RECURSIVE addChallenges(_, _, _, _, _)
addChallenges(dayTotals, challenges, participantsById, type, i) ==
  IF i > Len(challenges) THEN dayTotals
  ELSE addChallenges(addPredictions(dayTotals, challenges[i].day, predictionsOf(challenges[i]),
                                    participantsById, type, 1),
                     challenges, participantsById, type, i + 1)

aggregatePoint(entry) ==
  IF entry[2].count = 0 THEN [x |-> entry[1], y100 |-> 0]
  ELSE [x |-> entry[1], y100 |-> toFixed2(entry[2].solved, entry[2].count)]

dayTotalsOf(st, type, participantsById) ==
  addChallenges(addParticipants(<<>>, st.participants, type, 1),
                st.dailyChallenges, participantsById, type, 1)

\* Faulty variant: every day between the first and the last contribution gets a point,
\* with value 0 where nothing was contributed.
buildAggregateSeriesZeroFilled(st, type, participantsById) ==
  LET dayTotals == dayTotalsOf(st, type, participantsById)
      days      == {dayTotals[i][1] : i \in 1..Len(dayTotals)}
      first     == CHOOSE d \in days : \A e \in days : d <= e
      last      == CHOOSE d \in days : \A e \in days : d >= e
  IN  IF days = {} THEN <<>>
      ELSE [k \in 1..(last - first + 1) |->
              IF MapHas(dayTotals, first + k - 1)
              THEN aggregatePoint(<<first + k - 1, MapGet(dayTotals, first + k - 1)>>)
              ELSE [x |-> first + k - 1, y100 |-> 0]]

buildAggregateSeries(st, type, participantsById) ==
  LET dayTotals == dayTotalsOf(st, type, participantsById)
      points    == [i \in 1..Len(dayTotals) |-> aggregatePoint(dayTotals[i])]
  IN  ArraySort(points, [i \in 1..Len(points) |-> points[i].x])

RECURSIVE mapFromEntries(_, _, _)
mapFromEntries(ps, i, map) ==
  IF i > Len(ps) THEN map ELSE mapFromEntries(ps, i + 1, MapSet(map, ps[i].id, ps[i]))

participantsByIdOf(st) == mapFromEntries(st.participants, 1, <<>>)

\* One individual line: the participant's own points, sorted by day, y = solved as stored.
participantLine(participant) ==
  LET perf == participant.performance
      sortedPerf == ArraySort(perf, [i \in 1..Len(perf) |-> perf[i].day.v])
  IN  [kind |-> "participant", id |-> participant.id,
       data |-> [i \in 1..Len(sortedPerf) |-> [x |-> sortedPerf[i].day.v, y |-> sortedPerf[i].solved]]]

rankedParticipantsOf(st, type) ==
  LET participants == SelectSeq(st.participants, LAMBDA entry : entry.type = type)
      ranked == ArraySort(participants, AgiDaysDescending(participants))
  IN  SubSeq(ranked, 1, Min(TOP_N, Len(ranked)))

renderChartForType(st, type) ==
  LET aggregateData == buildAggregateSeries(st, type, participantsByIdOf(st))
      ranked == rankedParticipantsOf(st, type)
      withPerf == SelectSeq(ranked, LAMBDA p : Len(p.performance) > 0)
      lines == [i \in 1..Len(withPerf) |-> participantLine(withPerf[i])]
      datasets == (IF Len(aggregateData) > 0
                   THEN <<[kind |-> "aggregate", id |-> 0, data |-> aggregateData]>>
                   ELSE <<>>) \o lines
  IN  [datasets |-> datasets,
       empty    |-> ~ \E i \in 1..Len(datasets) : Len(datasets[i].data) > 0]

renderCharts(st) ==
  [rendered |-> TRUE,
   LLM      |-> renderChartForType(st, "LLM"),
   Agent    |-> renderChartForType(st, "Agent")]

(***************************************************************************)
(* Calendar grid (renderCalendar).  Intensities are in hundredths; with a  *)
(* whole number of correct answers every intensity the code computes is a  *)
(* whole number of hundredths.                                             *)
(***************************************************************************)
\* entry?.status || "pending": a day without a record, or whose record has an empty
\* status, is shown as pending.
dayStatus(calendarRecords, day) ==
  IF MapHas(calendarRecords, day) /\ MapGet(calendarRecords, day).status # ""
  THEN MapGet(calendarRecords, day).status
  ELSE "pending"

dayCorrect(calendarRecords, day) ==
  IF MapHas(calendarRecords, day) THEN MapGet(calendarRecords, day).correct ELSE Undefined

\* accuracyRatio is in tenths: Math.min(Math.max(correct / 10, 0), 1) * 10.
\* Faulty variant: neither the accuracy ratio nor the result is clamped.
dayIntensityUnclamped(status, correct) ==
  LET baseAlpha == CASE status = "agi"        -> 35
                     [] status = "evaluating" -> 32
                     [] status = "pending"    -> 24
                     [] status = "missed"     -> 32
                     [] OTHER                 -> 40
  IN  IF typeof(correct) = "undefined" THEN baseAlpha
      ELSE CASE status = "agi"        -> 25 + correct.v * 7
             [] status = "missed"     -> 25 + (10 - correct.v) * 5
             [] status = "evaluating" -> 25 + correct.v * 4
             [] status = "pending"    -> 18 + correct.v * 3
             [] OTHER                 -> baseAlpha

dayIntensity(status, correct) ==
  LET baseAlpha == CASE status = "agi"        -> 35
                     [] status = "evaluating" -> 32
                     [] status = "pending"    -> 24
                     [] status = "missed"     -> 32
                     [] OTHER                 -> 40
      accuracyRatio == Min(Max(correct.v, 0), 10)
      alpha == IF typeof(correct) = "undefined" THEN baseAlpha
               ELSE CASE status = "agi"        -> 25 + accuracyRatio * 7
                      [] status = "missed"     -> 25 + (10 - accuracyRatio) * 5
                      [] status = "evaluating" -> 25 + accuracyRatio * 4
                      [] status = "pending"    -> 18 + accuracyRatio * 3
                      [] OTHER                 -> baseAlpha
  IN  Min(Max(alpha, 12), 95)

renderCalendar(st) ==
  LET calendarRecords == dedupeCalendarMap(st.calendarDays)
  IN  [rendered |-> TRUE,
       days     |-> [day \in 1..GOAL |->
                       LET status == dayStatus(calendarRecords, day)
                       IN  [status       |-> status,
                            clampedAlpha |-> dayIntensity(status,
                                                          dayCorrect(calendarRecords, day))]]]

(***************************************************************************)
(* Challenge scorer (renderDailyList).                                     *)
(***************************************************************************)
\* challenge.day === todaysDay
todaysChallengesOf(st) ==
  SelectSeq(st.dailyChallenges, LAMBDA challenge : Num(challenge.day) = st.meta.currentDay)

\* Faulty variant: with a marker set only that day's challenges are shown, even
\* when there are none.
selectedChallengesTodayOnly(st) ==
  IF Truthy(st.meta.currentDay) THEN todaysChallengesOf(st) ELSE st.dailyChallenges

selectedChallenges(st) ==
  LET todaysDay == st.meta.currentDay
      todaysChallenges == todaysChallengesOf(st)
  IN  IF Truthy(todaysDay) /\ Len(todaysChallenges) > 0
      THEN todaysChallenges
      ELSE st.dailyChallenges

\* filter((pred) => pred.isCorrect).length
\* Faulty variant: only the boolean true counts as correct.
correctCountOfStrict(predictions) ==
  Len(SelectSeq(predictions, LAMBDA pred : pred.isCorrect = Bool(TRUE)))

correctCountOf(predictions) ==
  Len(SelectSeq(predictions, LAMBDA pred : Truthy(pred.isCorrect)))

\* A listed prediction.  A participant's name is modelled by its id; a prediction of
\* an id outside the lookup gets the placeholder { name: "Unknown", type: "LLM" }.
predictionItem(prediction, participantLookup) ==
  LET known == MapHas(participantLookup, prediction.participantId)
      type  == IF known THEN MapGet(participantLookup, prediction.participantId).type
               ELSE "LLM"
  IN  [participantId |-> prediction.participantId,
       name          |-> IF known THEN ToString(prediction.participantId) ELSE "Unknown",
       typeLabel     |-> IF type = "Agent" THEN "Agent System" ELSE "LLM API",
       score         |-> IF Truthy(prediction.isCorrect) THEN "Correct" ELSE "Missed"]

dailyCard(challenge, participantLookup) ==
  LET predictions == predictionsOf(challenge)
  IN  [id           |-> challenge.id,
       day          |-> challenge.day,
       correctCount |-> correctCountOf(predictions),
       total        |-> Len(predictions),
       items        |-> [i \in 1..Len(predictions) |->
                           predictionItem(predictions[i], participantLookup)]]

renderDailyList(st) ==
  LET challenges == selectedChallenges(st)
      participantLookup == mapFromEntries(st.participants, 1, <<>>)
  IN  [rendered |-> TRUE,
       empty    |-> Len(challenges) = 0,
       cards    |-> [i \in 1..Len(challenges) |-> dailyCard(challenges[i], participantLookup)]]

(***************************************************************************)
(* Record set.  STATE as constructed, the built-in fallback payload and    *)
(* applyData.                                                              *)
(***************************************************************************)
Obj(m) == [type |-> "object", v |-> m]

EmptyMeta == [currentDay |-> Undefined]

InitialState ==
  [meta |-> EmptyMeta, calendarDays |-> <<>>, dailyChallenges |-> <<>>, participants |-> <<>>]

CalRecord(d, s) == [day |-> d, status |-> s, correct |-> Undefined]

FALLBACK_DATA ==
  [meta            |-> Obj([currentDay |-> Num(1)]),
   calendarDays    |-> Arr(<<[day |-> Num(1), status |-> "pending", correct |-> Num(0)]>>),
   dailyChallenges |-> Arr(<<>>),
   participants    |-> Arr(<<>>)]

\* Faulty variant: only the fields the payload carries are replaced, the others keep
\* what an earlier payload installed.
applyDataPatch(data) ==
  [meta            |-> IF typeof(data.meta) = "object" THEN data.meta.v ELSE State.meta,
   calendarDays    |-> IF IsArray(data.calendarDays) THEN data.calendarDays.v
                       ELSE State.calendarDays,
   dailyChallenges |-> IF IsArray(data.dailyChallenges) THEN data.dailyChallenges.v
                       ELSE State.dailyChallenges,
   participants    |-> IF IsArray(data.participants) THEN data.participants.v
                       ELSE State.participants]

\* Faulty variant: the participants are taken from the challenges field.
applyDataWrongField(data) ==
  [meta            |-> IF typeof(data.meta) = "object" THEN data.meta.v ELSE EmptyMeta,
   calendarDays    |-> IF IsArray(data.calendarDays) THEN data.calendarDays.v ELSE <<>>,
   dailyChallenges |-> IF IsArray(data.dailyChallenges) THEN data.dailyChallenges.v ELSE <<>>,
   participants    |-> IF IsArray(data.dailyChallenges) THEN data.dailyChallenges.v ELSE <<>>]

applyData(data) ==
  [meta            |-> IF typeof(data.meta) = "object" THEN data.meta.v ELSE EmptyMeta,
   calendarDays    |-> IF IsArray(data.calendarDays) THEN data.calendarDays.v ELSE <<>>,
   dailyChallenges |-> IF IsArray(data.dailyChallenges) THEN data.dailyChallenges.v ELSE <<>>,
   participants    |-> IF IsArray(data.participants) THEN data.participants.v ELSE <<>>]

(***************************************************************************)
(* Payloads the fetch can deliver.                                         *)
(***************************************************************************)
SeqsUpTo(S, n) == UNION {[1..k -> S] : k \in 0..n}

Statuses == {"agi", "missed"}

\* Records with a numeric day, and two malformed ones (a string day, no day).
RawRecords ==
  {CalRecord(Num(d), s) : d \in 1..MaxDay, s \in Statuses}
    \cup {CalRecord(Str(1), "agi"), CalRecord(Undefined, "missed")}

ShortCalendars == SeqsUpTo(RawRecords, MaxLen)

\* Days 1..a agi, then (when brk) one missed day, then b agi days.
LongCalendar(a, brk, b) ==
  [i \in 1..a |-> CalRecord(Num(i), "agi")]
    \o (IF brk THEN <<CalRecord(Num(a + 1), "missed")>> ELSE <<>>)
    \o [i \in 1..b |-> CalRecord(Num(a + 1 + i), "agi")]

LongCalendars ==
  {LongCalendar(a, brk, b) : a \in {GOAL - 1, GOAL}, brk \in BOOLEAN, b \in 0..MaxTail}

CalendarPayloads ==
  {[meta |-> Undefined, calendarDays |-> Arr(c), dailyChallenges |-> Undefined,
    participants |-> Undefined] : c \in ShortCalendars \cup LongCalendars}

Participant(i, t, a, l, perf) ==
  [id |-> i, type |-> t, agiDays |-> a, longestStreak |-> l, performance |-> perf]

RankKeys == {Undefined, Num(0), Num(1), Num(2)} \X {Num(0), Num(GOAL)}

LeaderboardPayloads ==
  {[meta |-> Undefined, calendarDays |-> Undefined, dailyChallenges |-> Arr(<<>>),
    participants |-> Arr([i \in 1..Len(ks) |->
         Participant(i, IF i % 2 = 1 THEN "LLM" ELSE "Agent", ks[i][1], ks[i][2], <<>>)])] :
     ks \in SeqsUpTo(RankKeys, MaxParticipants)}

ChartDays == {1, 3}

Types == {"LLM", "Agent"}

Points == {[day |-> Num(d), solved |-> v] :
             d \in ChartDays, v \in {Num(0 - 2), Num(4), Num(12), Str(4)}}

\* Participant 9 is not in any participant list.
Predictions == {[participantId |-> i, isCorrect |-> Bool(c)] : i \in {1, 2, 9}, c \in BOOLEAN}

Challenge(d, ps) == [id |-> 1, day |-> d, predictions |-> ps]

ChartPayload(t1, perf1, t2, perf2, cs) ==
  [meta |-> Obj([currentDay |-> Num(1)]), calendarDays |-> Arr(<<>>),
   dailyChallenges |-> Arr(cs),
   participants |-> Arr(<<Participant(1, t1, Num(2), Num(0), perf1),
                          Participant(2, t2, Num(1), Num(0), perf2)>>)]

\* Two participants with varying performance points, with and without a challenge.
PerformancePayloads ==
  {ChartPayload(t1, perf1, t2, perf2, cs) :
     t1 \in Types, t2 \in Types, perf1 \in SeqsUpTo(Points, MaxPerf),
     perf2 \in {<<>>, <<[day |-> Num(1), solved |-> Num(7)]>>},
     cs \in {<<>>, <<Challenge(1, <<[participantId |-> 1, isCorrect |-> Bool(TRUE)],
                                    [participantId |-> 9, isCorrect |-> Bool(TRUE)]>>)>>}}

\* One challenge with varying predictions, beside one performance point.
PredictionPayloads ==
  {ChartPayload(t1, <<[day |-> Num(1), solved |-> Num(4)]>>, t2, <<>>, <<Challenge(d, ps)>>) :
     t1 \in Types, t2 \in Types, d \in ChartDays, ps \in SeqsUpTo(Predictions, MaxPreds)}

ChartPayloads == PerformancePayloads \cup PredictionPayloads

\* More participants of one cohort than a chart shows individual lines for.
TopPayloads ==
  {[meta |-> Undefined, calendarDays |-> Undefined, dailyChallenges |-> Undefined,
    participants |-> Arr([i \in 1..(TOP_N + 1) |->
         Participant(i, "LLM", Num(ks[i]), Num(0), <<[day |-> Num(1), solved |-> Num(i)]>>)])] :
     ks \in [1..(TOP_N + 1) -> {1, 2}]}

\* One challenge of day 1 whose predictions carry every kind of isCorrect value
\* (true, false, absent, 1, 0, a non-empty string), and one without a predictions field.
IsCorrectValues == {Bool(TRUE), Bool(FALSE), Undefined, Num(1), Num(0), Str(1)}

ScoredPredictions == {[participantId |-> 1, isCorrect |-> c] : c \in IsCorrectValues}

ScorerPayload(challenge) ==
  [meta |-> Obj([currentDay |-> Num(1)]), calendarDays |-> Undefined,
   dailyChallenges |-> Arr(<<challenge>>),
   participants |-> Arr(<<Participant(1, "LLM", Num(0), Num(0), <<>>)>>)]

ScorerPayloads ==
  {ScorerPayload(Challenge(1, ps)) : ps \in SeqsUpTo(ScoredPredictions, MaxPreds)}
    \cup {ScorerPayload([id |-> 1, day |-> 1])}

\* Challenges of days 1 and 2 under every kind of current-day marker: no meta, no
\* marker, 0, a day with and without challenges, a string.
Markers == {Undefined, Obj([currentDay |-> Undefined]), Obj([currentDay |-> Num(0)]),
            Obj([currentDay |-> Num(1)]), Obj([currentDay |-> Num(2)]),
            Obj([currentDay |-> Str(1)])}

SelectionPayloads ==
  {[meta |-> m, calendarDays |-> Undefined,
    dailyChallenges |-> Arr([i \in 1..Len(ds) |-> [id |-> i, day |-> ds[i], predictions |-> <<>>]]),
    participants |-> Undefined] :
     m \in Markers, ds \in SeqsUpTo({1, 2}, MaxChallenges)}

DailyPayloads == ScorerPayloads \cup SelectionPayloads

\* One record of day 1 with every status (the four of the palette, one outside it,
\* an empty one) and every kind of correct count (absent, negative, 0..10, above 10).
GridStatuses == {"agi", "missed", "evaluating", "pending", "archived", ""}

CorrectValues == {Undefined, Num(0 - 3), Num(0), Num(5), Num(10), Num(15)}

IntensityPayloads ==
  {[meta |-> Undefined,
    calendarDays |-> Arr(<<[day |-> Num(1), status |-> s, correct |-> c]>>),
    dailyChallenges |-> Undefined, participants |-> Undefined] :
     s \in GridStatuses, c \in CorrectValues}

\* Each of the three sequences absent, a string, an object, or an array of one record.
NotArrays == {Undefined, Str(1), Obj(EmptyMeta)}

PartialPayloads ==
  {[meta |-> Undefined, calendarDays |-> c, dailyChallenges |-> d, participants |-> p] :
     c \in NotArrays \cup {Arr(<<CalRecord(Num(1), "agi")>>)},
     d \in NotArrays \cup {Arr(<<Challenge(1, <<>>)>>)},
     p \in NotArrays \cup {Arr(<<Participant(1, "LLM", Num(1), Num(0), <<>>)>>)}}

Payloads ==
  CalendarPayloads \cup LeaderboardPayloads \cup ChartPayloads \cup TopPayloads
    \cup DailyPayloads \cup IntensityPayloads \cup PartialPayloads

(***************************************************************************)
(* init(): loadData, then the render steps in program order.  loadData     *)
(* awaits the fetch and then the parsing of the body; any failure inside   *)
(* its try block is caught and the fallback payload is applied.            *)
(***************************************************************************)
NoView == [rendered |-> FALSE]

NoStreaks == [current |-> 0, longest |-> 0]

NoData ==
  [meta |-> Undefined, calendarDays |-> Undefined, dailyChallenges |-> Undefined,
   participants |-> Undefined]

NotLoaded == [outcome |-> "pending", data |-> NoData]

\* What ends the try block early: the fetch rejects or answers with a non-success
\* status (while awaiting the fetch), the body does not parse or parses to null, which
\* applyData cannot read (while awaiting the body).
FetchFailures == {"rejected", "notOk"}

BodyFailures == {"parseError", "applyError"}

\* catch (error): the fallback payload is applied, the error is only logged.
\* Faulty variant: the error is logged and nothing is applied.
loadDataCatchLogOnly(st) == st

loadDataCatch(st) == applyData(FALLBACK_DATA)

Init ==
  /\ State = InitialState
  /\ pc = "loadData"
  /\ load = NotLoaded
  /\ metricsView = NoView
  /\ calendarView = NoView
  /\ dailyView = NoView
  /\ leaderboardView = NoView
  /\ chartsView = NoView
  /\ records = <<>>
  /\ streaks = NoStreaks
  /\ loads = <<>>
  /\ resolved = <<>>

\* await fetch(...) resolves with response.ok.
FetchOk ==
  /\ pc = "loadData"
  /\ pc' = "json"
  /\ UNCHANGED <<State, load, views, records, streaks, loads, resolved>>

\* await response.json() resolves; applyData(payload).
LoadDataOk ==
  /\ pc = "json"
  /\ \E payload \in Payloads :
       /\ State' = applyData(payload)
       /\ load' = [outcome |-> "ok", data |-> payload]
  /\ pc' = "renderMetrics"
  /\ UNCHANGED <<views, records, streaks, loads, resolved>>

LoadDataFallback ==
  /\ \E cause \in FetchFailures \cup BodyFailures :
       /\ pc = IF cause \in FetchFailures THEN "loadData" ELSE "json"
       /\ load' = [outcome |-> cause, data |-> FALLBACK_DATA]
  /\ State' = loadDataCatch(State)
  /\ pc' = "renderMetrics"
  /\ UNCHANGED <<views, records, streaks, loads, resolved>>

RenderMetrics ==
  /\ pc = "renderMetrics"
  /\ metricsView' = renderMetrics(State)
  /\ pc' = "renderCalendar"
  /\ UNCHANGED <<State, load, calendarView, dailyView, leaderboardView, chartsView,
                 records, streaks, loads, resolved>>

RenderCalendar ==
  /\ pc = "renderCalendar"
  /\ calendarView' = renderCalendar(State)
  /\ pc' = "renderDailyList"
  /\ UNCHANGED <<State, load, metricsView, dailyView, leaderboardView, chartsView,
                 records, streaks, loads, resolved>>

RenderDailyList ==
  /\ pc = "renderDailyList"
  /\ dailyView' = renderDailyList(State)
  /\ pc' = "renderLeaderboard"
  /\ UNCHANGED <<State, load, metricsView, calendarView, leaderboardView, chartsView,
                 records, streaks, loads, resolved>>

RenderLeaderboard ==
  /\ pc = "renderLeaderboard"
  /\ leaderboardView' = renderLeaderboard(State)
  /\ pc' = "renderCharts"
  /\ UNCHANGED <<State, load, metricsView, calendarView, dailyView, chartsView,
                 records, streaks, loads, resolved>>

\* renderCharts returns at once when the Chart library is not loaded.
RenderCharts ==
  /\ pc = "renderCharts"
  /\ chartsView' = renderCharts(State)
  /\ pc' = "done"
  /\ UNCHANGED <<State, load, metricsView, calendarView, dailyView, leaderboardView,
                 records, streaks, loads, resolved>>

RenderChartsSkipped ==
  /\ pc = "renderCharts"
  /\ pc' = "done"
  /\ UNCHANGED <<State, load, views, records, streaks, loads, resolved>>

Next ==
  \/ FetchOk
  \/ LoadDataOk
  \/ LoadDataFallback
  \/ RenderMetrics
  \/ RenderCalendar
  \/ RenderDailyList
  \/ RenderLeaderboard
  \/ RenderCharts
  \/ RenderChartsSkipped

Spec == Init /\ [][Next]_vars

(***************************************************************************)
(* Several loadData calls in flight.  Each call awaits its fetch, then the *)
(* parsing of its body, and then applies its payload (or, on a failure,    *)
(* the fallback) in one synchronous step; the calls' steps interleave in   *)
(* any order.                                                              *)
(***************************************************************************)
\* A payload whose four fields all carry k.
FullPayload(k) ==
  [meta            |-> Obj([currentDay |-> Num(k)]),
   calendarDays    |-> Arr(<<CalRecord(Num(k), "agi")>>),
   dailyChallenges |-> Arr(<<[id |-> k, day |-> k, predictions |-> <<>>]>>),
   participants    |-> Arr(<<Participant(k, "LLM", Num(k), Num(0), <<>>)>>)]

\* Two full payloads and one that carries calendar records only.
ReloadPayloads ==
  {FullPayload(1), FullPayload(2),
   [meta |-> Undefined, calendarDays |-> Arr(<<CalRecord(Num(3), "missed")>>),
    dailyChallenges |-> Undefined, participants |-> Undefined]}

InitLoads ==
  /\ State = InitialState
  /\ pc = "loads"
  /\ load = NotLoaded
  /\ metricsView = NoView
  /\ calendarView = NoView
  /\ dailyView = NoView
  /\ leaderboardView = NoView
  /\ chartsView = NoView
  /\ records = <<>>
  /\ streaks = NoStreaks
  /\ loads = <<>>
  /\ resolved = <<>>

\* loadData() is called: its fetch is in flight; data is the body the server will send.
StartLoad ==
  /\ Len(loads) < MaxLoads
  /\ \E payload \in ReloadPayloads :
       loads' = Append(loads, [pc |-> "loadData", data |-> payload])
  /\ UNCHANGED <<State, pc, load, views, records, streaks, resolved>>

\* The fetch of call i resolves with response.ok; the call awaits the body.
LoadFetchOk(i) ==
  /\ loads[i].pc = "loadData"
  /\ loads' = [loads EXCEPT ![i].pc = "json"]
  /\ UNCHANGED <<State, pc, load, views, records, streaks, resolved>>

\* The body of call i is parsed: applyData(payload), and the call resolves.
LoadApply(i) ==
  /\ loads[i].pc = "json"
  /\ State' = applyData(loads[i].data)
  /\ load' = [outcome |-> "ok", data |-> loads[i].data]
  /\ loads' = [loads EXCEPT ![i].pc = "applied"]
  /\ resolved' = Append(resolved, i)
  /\ UNCHANGED <<pc, views, records, streaks>>

\* Call i fails while awaiting the fetch or the body: the catch block applies the
\* fallback, and the call resolves.
LoadFail(i) ==
  /\ \E cause \in FetchFailures \cup BodyFailures :
       /\ loads[i].pc = IF cause \in FetchFailures THEN "loadData" ELSE "json"
       /\ load' = [outcome |-> cause, data |-> FALLBACK_DATA]
  /\ State' = loadDataCatch(State)
  /\ loads' = [loads EXCEPT ![i].pc = "fellBack"]
  /\ resolved' = Append(resolved, i)
  /\ UNCHANGED <<pc, views, records, streaks>>

NextLoads ==
  \/ StartLoad
  \/ \E i \in 1..Len(loads) : LoadFetchOk(i)
  \/ \E i \in 1..Len(loads) : LoadApply(i)
  \/ \E i \in 1..Len(loads) : LoadFail(i)

SpecLoads == InitLoads /\ [][NextLoads]_vars

(***************************************************************************)
(* computeStreaks applied to record sequences in any input order.          *)
(***************************************************************************)
StreakInputs ==
  SeqsUpTo({CalRecord(Num(d), s) : d \in 1..MaxDay, s \in Statuses}, MaxLen)

InitStreaks ==
  /\ State = InitialState
  /\ pc = "computeStreaks"
  /\ load = NotLoaded
  /\ metricsView = NoView
  /\ calendarView = NoView
  /\ dailyView = NoView
  /\ leaderboardView = NoView
  /\ chartsView = NoView
  /\ loads = <<>>
  /\ resolved = <<>>
  /\ records \in StreakInputs
  /\ streaks = NoStreaks

ComputeStreaks ==
  /\ pc = "computeStreaks"
  /\ streaks' = computeStreaks(records)
  /\ pc' = "returned"
  /\ UNCHANGED <<State, load, views, records, loads, resolved>>

NextStreaks == ComputeStreaks

SpecStreaks == InitStreaks /\ [][NextStreaks]_vars

(***************************************************************************)
(* Properties of the Streak & Progress Analyzer.                           *)
(***************************************************************************)
IsAgiRun(recs, i, j) == \A k \in i..j : recs[k].status = "agi"

\* The length of the longest window of consecutive elements that are all agi.
LongestAgiRun(recs) ==
  LET lengths == {0} \cup {j - i + 1 : <<i, j>> \in
                     {w \in (1..Len(recs)) \X (1..Len(recs)) :
                        w[1] <= w[2] /\ IsAgiRun(recs, w[1], w[2])}}
  IN  CHOOSE m \in lengths : \A x \in lengths : x <= m

\* C1: on the day-ascending normalized sequence, longest is the maximum length
\* of a run of consecutive agi elements; a gap in day numbers between two agi
\* records does not end a run, and the empty sequence gives 0.
C1_LongestIsMaxAgiRun ==
  metricsView.rendered =>
    /\ metricsView.streaks.longest = LongestAgiRun(metricsView.calendarRecords)
    /\ (Len(metricsView.calendarRecords) = 0 => metricsView.streaks.longest = 0)

\* A run of two agi records that spans a gap in day numbers has been counted.
C1_Witness ==
  /\ metricsView.rendered
  /\ Len(metricsView.calendarRecords) = 2
  /\ metricsView.calendarRecords[1].status = "agi"
  /\ metricsView.calendarRecords[2].status = "agi"
  /\ metricsView.calendarRecords[2].day.v > metricsView.calendarRecords[1].day.v + 1
  /\ metricsView.streaks.longest = 2

\* Record j comes after record i in day order (input order among equal days).
After(recs, i, j) ==
  \/ recs[j].day.v > recs[i].day.v
  \/ recs[j].day.v = recs[i].day.v /\ j > i

\* The agi records that have only agi records after them in day order.
TrailingAgi(recs) ==
  {i \in 1..Len(recs) :
     \A j \in 1..Len(recs) : (j = i \/ After(recs, i, j)) => recs[j].status = "agi"}

IsLastByDay(recs, i) == \A j \in 1..Len(recs) : ~After(recs, i, j)

\* C2: for a record sequence in any input order, current is the length of the
\* trailing run of agi records ending at the record of the highest day; it is
\* 0 when that record is not agi and 0 for the empty sequence.
C2_CurrentIsTrailingRun ==
  pc = "returned" =>
    /\ streaks.current = Cardinality(TrailingAgi(records))
    /\ \A i \in 1..Len(records) :
         (IsLastByDay(records, i) /\ records[i].status # "agi") => streaks.current = 0
    /\ (Len(records) = 0 => streaks.current = 0)

\* An input that is not in day order whose trailing run has been counted.
C2_Witness ==
  /\ pc = "returned"
  /\ Len(records) = 3
  /\ records[1].day.v > records[2].day.v
  /\ records[1].status = "agi"
  /\ records[3].status = "missed"
  /\ records[3].day.v < records[1].day.v
  /\ streaks.current >= 1

\* C3: the result of computeStreaks satisfies longest >= current >= 0.
C3_LongestAtLeastCurrent ==
  pc = "returned" => (streaks.longest >= streaks.current /\ streaks.current >= 0)

\* The trailing run is itself the longest run.
C3_Witness ==
  /\ pc = "returned"
  /\ Len(records) = 3
  /\ streaks.current = 2
  /\ streaks.longest = 2

(***************************************************************************)
(* Properties of the Record Normalizer.                                    *)
(***************************************************************************)
IsWellFormed(record) == typeof(record.day) = "number"

\* Index of the last record of the raw sequence with day number d.
LastIndexOfDay(raw, d) ==
  CHOOSE i \in 1..Len(raw) :
    /\ IsWellFormed(raw[i]) /\ raw[i].day.v = d
    /\ \A j \in (i + 1)..Len(raw) : ~(IsWellFormed(raw[j]) /\ raw[j].day.v = d)

NumericDays(raw) == {raw[i].day.v : i \in {k \in 1..Len(raw) : IsWellFormed(raw[k])}}

\* C4: the mapping holds at most one record per day, the record kept for a day
\* is the one that occurs last in the input, and the sequence view holds
\* exactly the mapping's records in strictly ascending day order.
C4_OneRecordPerDayLastWins ==
  metricsView.rendered =>
    LET raw  == State.calendarDays
        map  == dedupeCalendarMap(raw)
        view == metricsView.calendarRecords
    IN  /\ \A i, j \in 1..Len(map) : i # j => map[i][1] # map[j][1]
        /\ {map[i][1] : i \in 1..Len(map)} = NumericDays(raw)
        /\ \A i \in 1..Len(map) : map[i][2] = raw[LastIndexOfDay(raw, map[i][1])]
        /\ Len(view) = Len(map)
        /\ {view[i] : i \in 1..Len(view)} = {map[i][2] : i \in 1..Len(map)}
        /\ \A i \in 1..(Len(view) - 1) : view[i].day.v < view[i + 1].day.v

\* A day occurs twice with different records, behind a record of a later day.
C4_Witness ==
  /\ metricsView.rendered
  /\ Len(State.calendarDays) = 3
  /\ State.calendarDays[1].day = Num(2)
  /\ State.calendarDays[2] = CalRecord(Num(1), "missed")
  /\ State.calendarDays[3] = CalRecord(Num(1), "agi")
  /\ Len(metricsView.calendarRecords) = 2
  /\ metricsView.calendarRecords[1] = CalRecord(Num(1), "agi")

\* C5: with malformed entries in the raw sequence, normalization completes,
\* no malformed entry is in the mapping, and every well-formed record that no
\* later record of its day supersedes is in the mapping.
C5_MalformedDroppedRestKept ==
  metricsView.rendered =>
    LET raw  == State.calendarDays
        vals == {metricsView.calendarRecords[i] : i \in 1..Len(metricsView.calendarRecords)}
    IN  /\ \A i \in 1..Len(raw) : ~IsWellFormed(raw[i]) => raw[i] \notin vals
        /\ \A r \in vals : IsWellFormed(r)
        /\ \A i \in 1..Len(raw) :
             (IsWellFormed(raw[i]) /\ i = LastIndexOfDay(raw, raw[i].day.v)) => raw[i] \in vals
        /\ metricsView.daysTracked = Cardinality(NumericDays(raw))

\* Malformed entries before and between well-formed records, which are kept.
C5_Witness ==
  /\ metricsView.rendered
  /\ Len(State.calendarDays) = 3
  /\ State.calendarDays[1].day = Undefined
  /\ State.calendarDays[2].day = Num(2)
  /\ State.calendarDays[3].day = Str(1)
  /\ metricsView.daysTracked = 1

(***************************************************************************)
(* Goal indications of renderMetrics.                                      *)
(***************************************************************************)
\* C6: every indication of goal achievement of renderMetrics (the status state
\* and the progress label) says achieved exactly when the current streak is at
\* least 100.
C6_AchievedIffCurrentReachedGoal ==
  metricsView.rendered =>
    /\ (metricsView.agi.state = "yes") <=> (metricsView.streaks.current >= GOAL)
    /\ metricsView.progress.achieved <=> (metricsView.streaks.current >= GOAL)

(***************************************************************************)
(* Properties of the Leaderboard Ranker.                                   *)
(***************************************************************************)
AgiDaysOf(p) == IF p.agiDays = Undefined THEN 0 ELSE p.agiDays.v

InputIndex(ps, id) == CHOOSE i \in 1..Len(ps) : ps[i].id = id

\* C7: the leaderboard is a permutation of the participants in non-increasing
\* agiDays order (missing agiDays counting as 0), participants of equal agiDays
\* keep their input order, and the goal-achieved flag plays no part.
C7_LeaderboardOrder ==
  leaderboardView.rendered =>
    LET ps   == State.participants
        rows == leaderboardView.rows
    IN  /\ Len(rows) = Len(ps)
        /\ {rows[k].id : k \in 1..Len(rows)} = {ps[i].id : i \in 1..Len(ps)}
        /\ \A k, l \in 1..Len(rows) :
             k < l =>
               LET a == InputIndex(ps, rows[k].id)
                   b == InputIndex(ps, rows[l].id)
               IN  \/ AgiDaysOf(ps[a]) > AgiDaysOf(ps[b])
                   \/ AgiDaysOf(ps[a]) = AgiDaysOf(ps[b]) /\ a < b

\* The third participant leads; the first two tie and keep their order although
\* only the second is flagged as goal-achieved.
C7_Witness ==
  /\ leaderboardView.rendered
  /\ Len(State.participants) = 3
  /\ State.participants[1].agiDays = Num(1)
  /\ State.participants[2].agiDays = Num(1)
  /\ State.participants[3].agiDays = Num(2)
  /\ State.participants[1].longestStreak = Num(0)
  /\ State.participants[2].longestStreak = Num(GOAL)
  /\ [k \in 1..3 |-> leaderboardView.rows[k].id] = <<3, 1, 2>>
  /\ leaderboardView.rows[3].agiBadge

(***************************************************************************)
(* Properties of the Series Aggregator.                                    *)
(***************************************************************************)
InCohort(st, id, type) ==
  \E i \in 1..Len(st.participants) :
    st.participants[i].id = id /\ st.participants[i].type = type

\* The contributing points of a cohort on day d, from both sources.
Contributions(st, type, d) ==
  UNION {{<<"performance", i, k>> : k \in
            {n \in 1..Len(st.participants[i].performance) :
               /\ st.participants[i].performance[n].day = Num(d)
               /\ st.participants[i].performance[n].solved.type = "number"}} :
         i \in {m \in 1..Len(st.participants) : st.participants[m].type = type}}
  \cup
  UNION {{<<"prediction", i, k>> : k \in
            {n \in 1..Len(predictionsOf(st.dailyChallenges[i])) :
               InCohort(st, predictionsOf(st.dailyChallenges[i])[n].participantId, type)}} :
         i \in {m \in 1..Len(st.dailyChallenges) : st.dailyChallenges[m].day = d}}

ContributionValue(st, c) ==
  IF c[1] = "performance"
  THEN LET solved == st.participants[c[2]].performance[c[3]].solved.v
       IN  IF solved < 0 THEN 0 ELSE IF solved > 10 THEN 10 ELSE solved
  ELSE IF Truthy(st.dailyChallenges[c[2]].predictions[c[3]].isCorrect) THEN 10 ELSE 0

RECURSIVE SumOfContributions(_, _)
SumOfContributions(st, S) ==
  IF S = {} THEN 0
  ELSE LET c == CHOOSE c \in S : TRUE
       IN  ContributionValue(st, c) + SumOfContributions(st, S \ {c})

\* y100 / 100 is sum / count rounded to two decimals.
IsRoundedAverage(y100, sum, count) ==
  LET diff == y100 * count - 100 * sum
  IN  count > 0 /\ 2 * (IF diff < 0 THEN 0 - diff ELSE diff) <= count

AggregateOf(chart) ==
  IF \E i \in 1..Len(chart.datasets) : chart.datasets[i].kind = "aggregate"
  THEN chart.datasets[CHOOSE i \in 1..Len(chart.datasets) :
                        chart.datasets[i].kind = "aggregate"].data
  ELSE <<>>

\* C8: the value emitted for a day is the sum of the clamped performance points
\* and the 10 / 0 prediction points of the cohort on that day, divided by their
\* number and rounded to two decimals.
C8_AggregateIsRoundedAverage ==
  chartsView.rendered =>
    \A type \in Types :
      LET data == AggregateOf(chartsView[type])
      IN  \A i \in 1..Len(data) :
            LET S == Contributions(State, type, data[i].x)
            IN  IsRoundedAverage(data[i].y100, SumOfContributions(State, S), Cardinality(S))

\* One performance point of 4, one correct and one incorrect prediction: 4.67.
C8_Witness ==
  /\ chartsView.rendered
  /\ Len(State.participants) = 2
  /\ State.participants[1].type = "LLM"
  /\ State.participants[2].type = "LLM"
  /\ State.participants[1].performance = <<[day |-> Num(1), solved |-> Num(4)]>>
  /\ State.participants[2].performance = <<>>
  /\ Len(State.dailyChallenges) = 1
  /\ State.dailyChallenges[1].day = 1
  /\ State.dailyChallenges[1].predictions =
       <<[participantId |-> 1, isCorrect |-> Bool(TRUE)], [participantId |-> 2, isCorrect |-> Bool(FALSE)]>>
  /\ AggregateOf(chartsView["LLM"]) = <<[x |-> 1, y100 |-> 467]>>

\* Every day number that occurs in a performance point or a challenge.
DaysIn(st) ==
  UNION {{st.participants[i].performance[k].day.v :
            k \in 1..Len(st.participants[i].performance)} : i \in 1..Len(st.participants)}
  \cup {st.dailyChallenges[i].day : i \in 1..Len(st.dailyChallenges)}

\* C9: the series has exactly one point for each day with a contribution of the
\* cohort, none for any other day, in strictly ascending day order; it is empty
\* when the cohort has no contribution.
C9_OnePointPerContributingDay ==
  chartsView.rendered =>
    \A type \in Types :
      LET data == AggregateOf(chartsView[type])
          days == {d \in DaysIn(State) : Contributions(State, type, d) # {}}
      IN  /\ {data[i].x : i \in 1..Len(data)} = days
          /\ Len(data) = Cardinality(days)
          /\ \A i \in 1..(Len(data) - 1) : data[i].x < data[i + 1].x
          /\ \A i \in 1..Len(chartsView[type].datasets) :
               chartsView[type].datasets[i].kind = "aggregate" => days # {}

\* Contributions arrive for day 3 before day 1 and for no day in between: the
\* series has the two points, day 1 first.
C9_Witness ==
  /\ chartsView.rendered
  /\ Len(State.participants) = 2
  /\ State.participants[1].type = "LLM"
  /\ State.participants[1].performance = <<[day |-> Num(3), solved |-> Num(4)]>>
  /\ Len(State.dailyChallenges) = 1
  /\ State.dailyChallenges[1].day = 1
  /\ Len(AggregateOf(chartsView["LLM"])) = 2
  /\ AggregateOf(chartsView["LLM"])[1].x = 1
  /\ AggregateOf(chartsView["LLM"])[2].x = 3

\* C10: every value of every series of a cohort chart, the aggregate line and
\* the individual participant lines, lies in [0, 10].
C10_ChartValuesWithinScale ==
  chartsView.rendered =>
    \A type \in Types :
      \A i \in 1..Len(chartsView[type].datasets) :
        LET dataset == chartsView[type].datasets[i]
        IN  \A k \in 1..Len(dataset.data) :
              IF dataset.kind = "aggregate"
              THEN dataset.data[k].y100 >= 0 /\ dataset.data[k].y100 <= 1000
              ELSE /\ dataset.data[k].y.type = "number"
                   /\ dataset.data[k].y.v >= 0
                   /\ dataset.data[k].y.v <= 10

(***************************************************************************)
(* Challenge scorer.                                                       *)
(***************************************************************************)
\* The current-day marker is set when the record set's meta carries one.
MarkerSet(st) == st.meta.currentDay # Undefined

MatchingIndices(st) ==
  {i \in 1..Len(st.dailyChallenges) : Num(st.dailyChallenges[i].day) = st.meta.currentDay}

ShownIndices(st) ==
  IF MarkerSet(st) /\ MatchingIndices(st) # {}
  THEN MatchingIndices(st)
  ELSE 1..Len(st.dailyChallenges)

\* The k-th smallest element of a set of indices.
NthIndex(S, k) == CHOOSE i \in S : Cardinality({j \in S : j < i}) = k - 1

\* The challenge behind the k-th card of the daily list.
ShownChallenge(st, k) == st.dailyChallenges[NthIndex(ShownIndices(st), k)]

PredictionsOrNone(challenge) ==
  IF "predictions" \in DOMAIN challenge THEN challenge.predictions ELSE <<>>

NumberWhere(predictions, Test(_)) ==
  Cardinality({n \in 1..Len(predictions) : Test(predictions[n])})

IsExactlyTrue(pred) == pred.isCorrect = Bool(TRUE)

\* JavaScript takes undefined, false and 0 for false and every other value of the
\* model for true.
IsTruthy(pred) == pred.isCorrect \notin {Undefined, Bool(FALSE), Num(0)}

\* C11 as stated: for every card of the daily list, total is the number of
\* predictions of its challenge (0 without a list), correctCount is the number of
\* predictions whose isCorrect is exactly the boolean true, and
\* 0 <= correctCount <= total.
C11_CorrectCountIsExactlyTrue ==
  dailyView.rendered =>
    \A k \in 1..Len(dailyView.cards) :
      LET predictions == PredictionsOrNone(ShownChallenge(State, k))
      IN  /\ dailyView.cards[k].total = Len(predictions)
          /\ dailyView.cards[k].correctCount = NumberWhere(predictions, IsExactlyTrue)
          /\ 0 <= dailyView.cards[k].correctCount
          /\ dailyView.cards[k].correctCount <= dailyView.cards[k].total

\* C11 amended: for every card of the daily list, total is the number of predictions
\* of its challenge (0 without a list), correctCount is the number of predictions
\* whose isCorrect is truthy (true, a non-zero number, a non-empty string), and
\* 0 <= correctCount <= total.
C11_CorrectCountIsTruthy ==
  dailyView.rendered =>
    \A k \in 1..Len(dailyView.cards) :
      LET predictions == PredictionsOrNone(ShownChallenge(State, k))
      IN  /\ dailyView.cards[k].total = Len(predictions)
          /\ dailyView.cards[k].correctCount = NumberWhere(predictions, IsTruthy)
          /\ 0 <= dailyView.cards[k].correctCount
          /\ dailyView.cards[k].correctCount <= dailyView.cards[k].total

\* A card over [isCorrect: 1, isCorrect absent]: 1 of 2 correct.
C11_Witness ==
  /\ dailyView.rendered
  /\ Len(dailyView.cards) = 1
  /\ PredictionsOrNone(State.dailyChallenges[1]) =
       <<[participantId |-> 1, isCorrect |-> Num(1)],
         [participantId |-> 1, isCorrect |-> Undefined]>>
  /\ dailyView.cards[1].total = 2
  /\ dailyView.cards[1].correctCount = 1

\* C12: the daily list shows exactly the challenges whose day equals the current-day
\* marker, in their order, when the marker is set and some challenge matches, and the
\* full challenge list in every other case.
C12_SelectsTodaysOrAll ==
  dailyView.rendered =>
    /\ Len(dailyView.cards) = Cardinality(ShownIndices(State))
    /\ dailyView.empty = (Len(State.dailyChallenges) = 0)
    /\ \A k \in 1..Len(dailyView.cards) :
         /\ dailyView.cards[k].id = ShownChallenge(State, k).id
         /\ dailyView.cards[k].day = ShownChallenge(State, k).day

\* Challenges of days <<1, 2, 1>> under marker 1: the first and the third are shown.
C12_Witness ==
  /\ dailyView.rendered
  /\ State.meta.currentDay = Num(1)
  /\ Len(State.dailyChallenges) = 3
  /\ MatchingIndices(State) = {1, 3}
  /\ Len(dailyView.cards) = 2
  /\ dailyView.cards[2].id = 3

\* A set marker that no challenge matches: the full list is shown.
C12_WitnessNoMatch ==
  /\ dailyView.rendered
  /\ State.meta.currentDay = Num(2)
  /\ Len(State.dailyChallenges) = 2
  /\ MatchingIndices(State) = {}
  /\ Len(dailyView.cards) = 2

C13_WitnessOutsidePalette ==
  /\ calendarView.rendered
  /\ State.calendarDays = <<[day |-> Num(1), status |-> "archived", correct |-> Num(0 - 3)]>>
  /\ calendarView.days[1].status = "archived"
  /\ calendarView.days[1].clampedAlpha = 40

(***************************************************************************)
(* Record set installation.                                                *)
(***************************************************************************)
\* The sequence a payload field stands for: itself when an array, empty otherwise.
SequenceOf(field) == IF field.type = "array" THEN field.v ELSE <<>>

\* C14: once a payload is applied, calendarDays, dailyChallenges and participants are
\* each the payload's field when that is an array and the empty sequence when it is
\* absent or not an array; without a participants array the leaderboard is rendered
\* empty, and without calendar records both streaks are 0.
C14_FieldsArrayOrEmpty ==
  /\ load.outcome # "pending" =>
       /\ State.calendarDays = SequenceOf(load.data.calendarDays)
       /\ State.dailyChallenges = SequenceOf(load.data.dailyChallenges)
       /\ State.participants = SequenceOf(load.data.participants)
  /\ (leaderboardView.rendered /\ load.data.participants.type # "array") =>
       (leaderboardView.empty /\ leaderboardView.rows = <<>>)
  /\ (metricsView.rendered /\ load.data.calendarDays.type # "array") =>
       metricsView.streaks = [current |-> 0, longest |-> 0]

\* A payload whose participants field is a string and whose calendarDays is absent,
\* beside a challenge array: rendered to the end.
C14_Witness ==
  /\ pc = "done"
  /\ load.outcome = "ok"
  /\ load.data.participants = Str(1)
  /\ load.data.calendarDays = Undefined
  /\ Len(State.dailyChallenges) = 1
  /\ State.participants = <<>>
  /\ leaderboardView.rendered
  /\ leaderboardView.empty
  /\ metricsView.streaks = [current |-> 0, longest |-> 0]

(***************************************************************************)
(* Order of loading and rendering.                                         *)
(***************************************************************************)
AnyRendered ==
  \/ metricsView.rendered
  \/ calendarView.rendered
  \/ dailyView.rendered
  \/ leaderboardView.rendered
  \/ chartsView.rendered

LoadFailed == load.outcome \in {"rejected", "notOk", "parseError", "applyError"}

\* The record set of the built-in fallback payload.
FallbackRecordSet ==
  [meta            |-> [currentDay |-> Num(1)],
   calendarDays    |-> <<[day |-> Num(1), status |-> "pending", correct |-> Num(0)]>>,
   dailyChallenges |-> <<>>,
   participants    |-> <<>>]

\* C15: no render step has run before loadData has resolved and applyData has installed
\* a record set; when the fetch rejects, answers without success, or the body cannot be
\* parsed or applied, the installed record set is the fallback's, init has a next step
\* until it is at its end, and at its end every render step has run.
C15_LoadBeforeRender ==
  /\ (AnyRendered \/ pc \notin {"loadData", "json", "renderMetrics"}) =>
       /\ load.outcome # "pending"
       /\ State.calendarDays = SequenceOf(load.data.calendarDays)
       /\ State.dailyChallenges = SequenceOf(load.data.dailyChallenges)
       /\ State.participants = SequenceOf(load.data.participants)
  /\ pc \in {"loadData", "json"} => ~AnyRendered
  /\ LoadFailed => State = FallbackRecordSet
  /\ (LoadFailed /\ pc = "done") =>
       /\ metricsView.rendered
       /\ calendarView.rendered
       /\ dailyView.rendered
       /\ leaderboardView.rendered
  /\ (LoadFailed /\ pc # "done") => ENABLED Next

\* A body that does not parse: the fallback's single pending day is rendered by every
\* step.
C15_Witness ==
  /\ pc = "done"
  /\ load.outcome = "parseError"
  /\ State = FallbackRecordSet
  /\ metricsView.rendered /\ metricsView.daysTracked = 1
  /\ calendarView.rendered /\ calendarView.days[1].status = "pending"
  /\ dailyView.rendered /\ dailyView.empty
  /\ leaderboardView.rendered /\ leaderboardView.empty
  /\ chartsView.rendered

(***************************************************************************)
(* Concurrent loads.                                                       *)
(***************************************************************************)
\* The record set that consists of one payload's four fields.
RecordSetOf(data) ==
  [meta            |-> IF data.meta.type = "object" THEN data.meta.v
                       ELSE [currentDay |-> Undefined],
   calendarDays    |-> SequenceOf(data.calendarDays),
   dailyChallenges |-> SequenceOf(data.dailyChallenges),
   participants    |-> SequenceOf(data.participants)]

\* What call i installed when it resolved: its payload, or the fallback on a failure.
InstalledBy(i) ==
  IF loads[i].pc = "applied" THEN RecordSetOf(loads[i].data) ELSE FallbackRecordSet

AllResolved == \A i \in 1..Len(loads) : loads[i].pc \in {"applied", "fellBack"}

\* C16: between any two steps of the in-flight loadData calls the four fields of the
\* record set come from one payload: they are as constructed while no call has
\* resolved, and afterwards wholly those installed by the call that resolved last; in
\* particular so once all calls have resolved.
C16_OnePayloadLastResolvedWins ==
  /\ resolved = <<>> => State = InitialState
  /\ resolved # <<>> => State = InstalledBy(resolved[Len(resolved)])
  /\ (AllResolved /\ loads # <<>>) =>
       /\ Len(resolved) = Len(loads)
       /\ State = InstalledBy(resolved[Len(resolved)])

\* Two calls, the one started first resolved last, with the calendar-only payload
\* after a full payload: nothing of the full payload is left.
C16_Witness ==
  /\ Len(loads) = 2
  /\ AllResolved
  /\ resolved = <<2, 1>>
  /\ loads[2].pc = "applied" /\ loads[2].data = FullPayload(2)
  /\ loads[1].pc = "applied" /\ loads[1].data.participants = Undefined
  /\ State.participants = <<>>
  /\ State.calendarDays = <<CalRecord(Num(3), "missed")>>

(***************************************************************************)
(* Predictions of unknown participants.                                    *)
(***************************************************************************)
IsKnown(st, id) == \E i \in 1..Len(st.participants) : st.participants[i].id = id

\* The record set without the predictions whose participantId matches no participant.
WithoutUnknown(st) ==
  [st EXCEPT !.dailyChallenges =
     [i \in 1..Len(st.dailyChallenges) |->
        IF "predictions" \in DOMAIN st.dailyChallenges[i]
        THEN [st.dailyChallenges[i] EXCEPT !.predictions =
                SelectSeq(st.dailyChallenges[i].predictions,
                          LAMBDA pred : IsKnown(st, pred.participantId))]
        ELSE st.dailyChallenges[i]]]

\* The predictions of a challenge that count for the LLM aggregate of its day.
AggregatedAsLLM(st, predictions) ==
  {n \in 1..Len(predictions) : InCohort(st, predictions[n].participantId, "LLM")}

\* The predictions a card of the daily list labels as LLM.
DisplayedAsLLM(card) == {n \in 1..Len(card.items) : card.items[n].typeLabel = "LLM API"}

\* C17: a prediction whose participantId matches no participant changes no cohort's
\* aggregate series (each is the series of the record set without such predictions),
\* while the daily list counts it in total and correctCount and shows it under the
\* placeholder name "Unknown" with the LLM label; so the predictions behind a day's LLM
\* aggregate are never more, and can be fewer, than those displayed as LLM.
C17_UnknownCountsForNoCohort ==
  /\ chartsView.rendered =>
       \A type \in Types :
         AggregateOf(chartsView[type]) =
           AggregateOf(renderChartForType(WithoutUnknown(State), type))
  /\ dailyView.rendered =>
       \A k \in 1..Len(dailyView.cards) :
         LET predictions == PredictionsOrNone(ShownChallenge(State, k))
             card == dailyView.cards[k]
         IN  /\ card.total = Len(predictions)
             /\ card.correctCount = NumberWhere(predictions, IsTruthy)
             /\ \A n \in 1..Len(predictions) :
                  ~IsKnown(State, predictions[n].participantId) =>
                    /\ card.items[n].name = "Unknown"
                    /\ card.items[n].typeLabel = "LLM API"
             /\ AggregatedAsLLM(State, predictions) \subseteq DisplayedAsLLM(card)

\* Day 1 with a performance point of 4, a missed prediction of LLM participant 1 and a
\* correct prediction of the unknown participant 9: the card shows 1/2 correct and two
\* LLM predictions, the LLM aggregate is (4 + 0) / 2 = 2.00 and there is no Agent point.
C17_Witness ==
  /\ chartsView.rendered
  /\ dailyView.rendered
  /\ Len(State.participants) = 2
  /\ State.participants[1].type = "LLM"
  /\ State.participants[2].type = "Agent"
  /\ Len(State.dailyChallenges) = 1
  /\ State.dailyChallenges[1].day = 1
  /\ PredictionsOrNone(State.dailyChallenges[1]) =
       <<[participantId |-> 1, isCorrect |-> Bool(FALSE)],
         [participantId |-> 9, isCorrect |-> Bool(TRUE)]>>
  /\ Len(dailyView.cards) = 1
  /\ dailyView.cards[1].total = 2
  /\ dailyView.cards[1].correctCount = 1
  /\ dailyView.cards[1].items[2].name = "Unknown"
  /\ DisplayedAsLLM(dailyView.cards[1]) = {1, 2}
  /\ AggregatedAsLLM(State, PredictionsOrNone(State.dailyChallenges[1])) = {1}
  /\ AggregateOf(chartsView["LLM"]) = <<[x |-> 1, y100 |-> 200]>>
  /\ AggregateOf(chartsView["Agent"]) = <<>>

=============================================================================
